---- MODULE Spec2Model ----
(***************************************************************************)
(* gold_scraper: the two observation pipelines of the repository.          *)
(*   github_gold_scraper.py   - file flow: scrape, write one JSON file per *)
(*                              observation to data/pending, rebuild       *)
(*                              data/sync_summary.json                     *)
(*   supabase_gold_scraper.py - remote flow: scrape, insert one row into   *)
(*                              the gold_prices table over REST            *)
(* Python dicts are records (a key is present iff it is in DOMAIN), floats *)
(* are exact decimals [m, e] standing for m / 10^e, a function that may    *)
(* raise returns a record with a `raised' field.                           *)
(***************************************************************************)
EXTENDS Integers, Sequences, FiniteSets, TLC

\* ------------------------------------------------------------------ bounds
\* the wall clock takes the values 1..MaxTime (seconds)
MaxTime == 2
\* number of runs of main() started one after another in SpecRuns
MaxRuns == 2

\* --------------------------------------------------------------- constants
\* sorted(pending_files, reverse=True)[:10]
LatestLimit == 10
\* r.status_code == 201
Created == 201

Procs == {1, 2}

\* ---------------------------------------------------------------- decimals
Dec(m, e) == [m |-> m, e |-> e]

RECURSIVE Pow10(_)
Pow10(n) == IF n = 0 THEN 1 ELSE 10 * Pow10(n - 1)

\* return 36.50  # Fallback rate
FallbackRate == Dec(3650, 2)

Digits == {"0", "1", "2", "3", "4", "5", "6", "7", "8", "9"}

DigitVal(c) ==
    CASE c = "0" -> 0 [] c = "1" -> 1 [] c = "2" -> 2 [] c = "3" -> 3
      [] c = "4" -> 4 [] c = "5" -> 5 [] c = "6" -> 6 [] c = "7" -> 7
      [] c = "8" -> 8 [] c = "9" -> 9

\* str.replace(old, new) for a one-character old; new is a sequence of characters
RECURSIVE Replace(_, _, _)
Replace(s, old, new) ==
    IF s = <<>> THEN <<>>
    ELSE (IF Head(s) = old THEN new ELSE <<Head(s)>>) \o Replace(Tail(s), old, new)

RECURSIVE DigitsValue(_)
DigitsValue(s) ==
    IF s = <<>> THEN 0
    ELSE DigitsValue(SubSeq(s, 1, Len(s) - 1)) * 10 + DigitVal(s[Len(s)])

\* float(str) on a string of digits and points: ValueError unless the string
\* has at least one digit and at most one point
Float(s) ==
    LET points == {i \in 1..Len(s) : s[i] = "."}
        digits == SelectSeq(s, LAMBDA c : c \in Digits)
    IN  IF Cardinality(points) > 1 \/ digits = <<>>
           \/ \E i \in 1..Len(s) : s[i] \notin Digits \cup {"."}
        THEN [raised |-> TRUE, m |-> 0, e |-> 0]
        ELSE [raised |-> FALSE,
              m |-> DigitsValue(digits),
              e |-> IF points = {} THEN 0
                    ELSE Len(s) - (CHOOSE i \in points : TRUE)]

\* float(match.group(1).replace('.', '').replace(',', '.'))
ParsePrice(group) == Float(Replace(Replace(group, ".", <<>>), ",", <<".">>))

\* nearest integer to n / d, ties to the even one (Python's round)
RoundHalfEven(n, d) ==
    LET nn == IF d < 0 THEN -n ELSE n
        dd == IF d < 0 THEN -d ELSE d
        q  == nn \div dd
        r  == nn % dd
    IN  IF 2 * r < dd THEN q
        ELSE IF 2 * r > dd THEN q + 1
        ELSE IF q % 2 = 0 THEN q ELSE q + 1

\* round(price / rate, 2) for rate # 0
ConvertToEur(price, rate) ==
    LET k == rate.e + 2 - price.e
    IN  Dec(IF k >= 0 THEN RoundHalfEven(price.m * Pow10(k), rate.m)
            ELSE RoundHalfEven(price.m, rate.m * Pow10(-k)), 2)

\* ------------------------------------------------ responses of the network
\* url = "https://bigpara.hurriyet.com.tr/altin/ceyrek-altin-fiyati/"
Url == "https://bigpara.hurriyet.com.tr/altin/ceyrek-altin-fiyati/"

\* re.search found nothing
NoMatch == <<>>

PageResponse(kind, status, buy, sell) ==
    [kind |-> kind, status |-> status, buy |-> buy, sell |-> sell]

\* group(1) of a match of \d{1,3}(?:[,\.]\d{3})*(?:[,\.]\d{2})? as a sequence
\* of characters: 4.500,00 and 4.550,00, 999,99, and 1,234,56 (which the
\* pattern matches and float() rejects)
Buy4500 == <<"4", ".", "5", "0", "0", ",", "0", "0">>
Sell4550 == <<"4", ".", "5", "5", "0", ",", "0", "0">>
Price999 == <<"9", "9", "9", ",", "9", "9">>
TwoCommas == <<"1", ",", "2", "3", "4", ",", "5", "6">>

\* what requests.get(url, headers=headers) can give: a connection error or
\* timeout, an HTTP error status, or a page on whose text each pattern matches
\* or not
PageResponses ==
    { PageResponse("neterr", 0, NoMatch, NoMatch),
      PageResponse("http", 503, NoMatch, NoMatch),
      PageResponse("http", 200, Buy4500, Sell4550),
      PageResponse("http", 200, Price999, Price999),
      PageResponse("http", 200, NoMatch, Sell4550),
      PageResponse("http", 200, Buy4500, NoMatch),
      PageResponse("http", 200, NoMatch, NoMatch),
      PageResponse("http", 200, TwoCommas, Sell4550),
      PageResponse("http", 200, Buy4500, TwoCommas) }

RateResponse(kind, status, body, m) ==
    [kind |-> kind, status |-> status, body |-> body, val |-> Dec(m, 2)]

\* what requests.get(frankfurter) can give: a connection error, an HTTP error
\* status, a body that is no JSON, a body without rates/TRY, a null rate, or a
\* number (positive, zero or negative)
RateResponses ==
    { RateResponse("neterr", 0, "none", 0),
      RateResponse("http", 500, "none", 0),
      RateResponse("http", 200, "notjson", 0),
      RateResponse("http", 200, "missing", 0),
      RateResponse("http", 200, "null", 0),
      RateResponse("http", 200, "number", 4012),
      RateResponse("http", 200, "number", 0),
      RateResponse("http", 200, "number", -3650) }

\* response.raise_for_status() raises HTTPError for 4xx and 5xx
RaisesForStatus(status) == status >= 400 /\ status < 600

Returned(v) == [raised |-> FALSE, exc |-> "", val |-> v]
Raised(exc) == [raised |-> TRUE, exc |-> exc, val |-> [none |-> TRUE]]

RateValue(null, v) == [null |-> null, dec |-> v]

\* ---------------------------------------------------------- rate provider
\* the try block of get_eur_tl_rate (github_gold_scraper.py)
FileRateRequest(resp) ==
    IF resp.kind = "neterr" THEN Raised("ConnectionError")
    ELSE IF RaisesForStatus(resp.status) THEN Raised("HTTPError")
    ELSE IF resp.body = "notjson" THEN Raised("JSONDecodeError")
    ELSE IF resp.body = "missing" THEN Raised("KeyError")
    ELSE Returned(RateValue(resp.body = "null", resp.val))

\* get_eur_tl_rate of the file flow without its except clause
FileGetEurTlRateNoFallback(resp) == FileRateRequest(resp)

\* get_eur_tl_rate (github_gold_scraper.py): except: return 36.50
FileGetEurTlRate(resp) ==
    IF FileRateRequest(resp).raised
    THEN Returned(RateValue(FALSE, FallbackRate))
    ELSE FileRateRequest(resp)

\* the try block of get_eur_tl_rate (supabase_gold_scraper.py)
RemoteRateRequest(resp) ==
    IF resp.kind = "neterr" THEN Raised("ConnectionError")
    ELSE IF RaisesForStatus(resp.status) THEN Raised("HTTPError")
    ELSE IF resp.body = "notjson" THEN Raised("JSONDecodeError")
    ELSE IF resp.body = "missing" THEN Raised("KeyError")
    ELSE Returned(RateValue(resp.body = "null", resp.val))

\* get_eur_tl_rate (supabase_gold_scraper.py): except Exception: print; raise
RemoteGetEurTlRate(resp) == RemoteRateRequest(resp)

\* ------------------------------------------------------------- extraction
\* the dict built when both patterns matched (github_gold_scraper.py)
FileOkData(t, buy, sell, rate) ==
    [timestamp |-> t, date |-> t,
     buy_price_tl |-> buy, sell_price_tl |-> sell,
     buy_price_eur |-> ConvertToEur(buy, rate),
     sell_price_eur |-> ConvertToEur(sell, rate),
     eur_tl_rate |-> rate, source |-> Url, scraped_from |-> "github_actions"]

\* an error dict that also carries (zero) converted prices
FileErrorDataWithPrices(t, msg) ==
    [error |-> msg, timestamp |-> t, source |-> Url,
     buy_price_eur |-> Dec(0, 2), sell_price_eur |-> Dec(0, 2)]

\* the dict of the else branch and of the except clause (github_gold_scraper.py)
FileErrorData(t, msg) == [error |-> msg, timestamp |-> t, source |-> Url]

\* the division and rounding of the two prices: TypeError on a null rate,
\* ZeroDivisionError on a zero rate
DivisionRaises(rate) ==
    IF rate.null THEN "TypeError"
    ELSE IF rate.dec.m = 0 THEN "ZeroDivisionError"
    ELSE ""

\* get_quarter_gold_prices reaches its call of get_eur_tl_rate: the page came,
\* both patterns matched and both floats parsed
CallsRate(page) ==
    /\ page.kind = "http" /\ ~RaisesForStatus(page.status)
    /\ page.buy # NoMatch /\ page.sell # NoMatch
    /\ ~ParsePrice(page.buy).raised /\ ~ParsePrice(page.sell).raised

\* the try block of get_quarter_gold_prices (github_gold_scraper.py)
FileScrapeBody(page, rateResp, t) ==
    IF page.kind = "neterr" THEN Raised("ConnectionError")
    ELSE IF RaisesForStatus(page.status) THEN Raised("HTTPError")
    ELSE IF page.buy = NoMatch \/ page.sell = NoMatch
    THEN Returned(FileErrorData(t, "Could not extract gold prices from website"))
    ELSE IF ParsePrice(page.buy).raised \/ ParsePrice(page.sell).raised
    THEN Raised("ValueError")
    ELSE LET buy  == ParsePrice(page.buy)
             sell == ParsePrice(page.sell)
             rate == FileGetEurTlRate(rateResp)
         IN  IF rate.raised THEN Raised(rate.exc)
             ELSE IF DivisionRaises(rate.val) # "" THEN Raised(DivisionRaises(rate.val))
             ELSE Returned(FileOkData(t, Dec(buy.m, buy.e), Dec(sell.m, sell.e),
                                      rate.val.dec))

\* get_quarter_gold_prices of the file flow without its except clause
FileGetQuarterGoldPricesNoExcept(page, rateResp, t) == FileScrapeBody(page, rateResp, t)

\* get_quarter_gold_prices (github_gold_scraper.py): except Exception as e:
\* return the error dict
FileGetQuarterGoldPrices(page, rateResp, t) ==
    IF FileScrapeBody(page, rateResp, t).raised
    THEN Returned(FileErrorData(t, "Scraping failed: "
                                    \o FileScrapeBody(page, rateResp, t).exc))
    ELSE FileScrapeBody(page, rateResp, t)

\* the dict built when both patterns matched (supabase_gold_scraper.py)
RemoteOkData(t, buy, sell, rate) ==
    [timestamp |-> t,
     buy_price_tl |-> buy, sell_price_tl |-> sell,
     buy_price_eur |-> ConvertToEur(buy, rate),
     sell_price_eur |-> ConvertToEur(sell, rate),
     eur_tl_rate |-> rate, source |-> Url, scraped_from |-> "github_actions"]

\* the dict of the else branch and of the except clause (supabase_gold_scraper.py)
RemoteErrorData(msg) == [error |-> msg, source |-> Url]

\* the try block of get_quarter_gold_prices (supabase_gold_scraper.py)
RemoteScrapeBody(page, rateResp, t) ==
    IF page.kind = "neterr" THEN Raised("ConnectionError")
    ELSE IF RaisesForStatus(page.status) THEN Raised("HTTPError")
    ELSE IF page.buy = NoMatch \/ page.sell = NoMatch
    THEN Returned(RemoteErrorData("Could not extract gold prices"))
    ELSE IF ParsePrice(page.buy).raised \/ ParsePrice(page.sell).raised
    THEN Raised("ValueError")
    ELSE LET buy  == ParsePrice(page.buy)
             sell == ParsePrice(page.sell)
             rate == RemoteGetEurTlRate(rateResp)
         IN  IF rate.raised THEN Raised(rate.exc)
             ELSE IF DivisionRaises(rate.val) # "" THEN Raised(DivisionRaises(rate.val))
             ELSE Returned(RemoteOkData(t, Dec(buy.m, buy.e), Dec(sell.m, sell.e),
                                        rate.val.dec))

\* get_quarter_gold_prices (supabase_gold_scraper.py): except Exception as e
RemoteGetQuarterGoldPrices(page, rateResp, t) ==
    IF RemoteScrapeBody(page, rateResp, t).raised
    THEN Returned(RemoteErrorData("Scraping failed: "
                                  \o RemoteScrapeBody(page, rateResp, t).exc))
    ELSE RemoteScrapeBody(page, rateResp, t)

\* 'error' in data / 'buy_price_eur' in data
HasKey(d, k) == k \in DOMAIN d

\* ------------------------------------------------------------- file store
\* an entry of data/pending: gold_prices_<YYYYMMDD_HHMMSS>.json, or another file
FileName(stem, ts, ext) == [stem |-> stem, ts |-> ts, ext |-> ext]

\* f"data/pending/gold_prices_{timestamp}.json"
PendingName(ts) == FileName("gold_prices_", ts, ".json")

\* a file that is no observation, such as a .gitkeep that keeps the directory
\* in the repository
GitKeep == FileName(".gitkeep", 0, "")

\* f.endswith('.json')
EndsWithJson(name) == name.ext = ".json"

\* no dict
NoData == [none |-> TRUE]

\* a file: complete with the document dumped to it, or cut short by a failed
\* json.dump
File(complete, doc) == [complete |-> complete, doc |-> doc]

\* gold_data[k] = v
SetKey(d, k, v) == (k :> v) @@ d

\* the metadata save_to_json adds to gold_data
WithMetadata(data, t, name) ==
    SetKey(SetKey(SetKey(data, "saved_at", t), "filename", name),
           "sync_status", "pending")

\* the directory with one file written (created or overwritten)
WriteFile(dir, name, file) == (name :> file) @@ dir

EmptyDir == [n \in {} |-> File(TRUE, NoData)]

\* the outcomes of open(..., 'w') followed by json.dump
IoOutcomes == {"ok", "open_fails", "dump_fails"}

\* save_to_json returning None for an error observation, as save_to_supabase does
SaveToJsonSkipsErrors(data, t, dir, io) ==
    IF io = "ok" /\ ~HasKey(data, "error")
    THEN [ret |-> <<PendingName(t)>>, data |-> WithMetadata(data, t, PendingName(t)),
          dir |-> WriteFile(dir, PendingName(t),
                            File(TRUE, WithMetadata(data, t, PendingName(t))))]
    ELSE [ret |-> <<>>, data |-> WithMetadata(data, t, PendingName(t)), dir |-> dir]

\* save_to_json after ensure_data_directory: the file name, the metadata, the
\* write inside try/except. ret is <<filename>>, or <<>> for None
SaveToJson(data, t, dir, io) ==
    LET name == PendingName(t)
        doc  == WithMetadata(data, t, name)
    IN  [ret  |-> IF io = "ok" THEN <<name>> ELSE <<>>,
         data |-> doc,
         dir  |-> CASE io = "ok" -> WriteFile(dir, name, File(TRUE, doc))
                    [] io = "dump_fails" -> WriteFile(dir, name, File(FALSE, NoData))
                    [] io = "open_fails" -> dir]

\* sorted(names, reverse=True) of .json names, which differ in the timestamp
RECURSIVE SortedReverse(_)
SortedReverse(names) ==
    IF names = {} THEN <<>>
    ELSE LET top == CHOOSE n \in names : \A o \in names : o.ts <= n.ts
         IN  <<top>> \o SortedReverse(names \ {top})

\* seq[:n]
Take(seq, n) == SubSeq(seq, 1, IF Len(seq) < n THEN Len(seq) ELSE n)

\* the listing of update_summary without its filter
ListPendingUnfiltered(dir) == DOMAIN dir

\* [f for f in os.listdir('data/pending') if f.endswith('.json')]
ListPending(dir) == {n \in DOMAIN dir : EndsWithJson(n)}

NoSummary == [state |-> "absent", last_update |-> 0, pending_records |-> 0,
              latest_files |-> <<>>]

\* the summary dict of update_summary
SummaryDoc(t, pending_files) ==
    [state |-> "ok", last_update |-> t,
     pending_records |-> Cardinality(pending_files),
     latest_files |-> Take(SortedReverse(pending_files), LatestLimit)]

\* data/sync_summary.json after open(..., 'w') and json.dump
WriteSummary(old, t, pending_files, io) ==
    CASE io = "ok" -> SummaryDoc(t, pending_files)
      [] io = "dump_fails" -> [SummaryDoc(t, pending_files) EXCEPT !.state = "corrupt"]
      [] io = "open_fails" -> old

\* ----------------------------------------------------------- remote store
\* os.environ.get(...): unset (None), set to the empty string, or set
EnvValues == {"unset", "", "value"}

\* not cfg['url'] or not cfg['key']
ConfigMissing(cfg) == cfg.url \in {"unset", ""} \/ cfg.key \in {"unset", ""}

PostResponse(kind, status, body) == [kind |-> kind, status |-> status, body |-> body]

\* what requests.post can give: a connection error, or a status with a body:
\* the inserted row in an array, an empty array, a row without id, no JSON
PostResponses ==
    { PostResponse("neterr", 0, "none"),
      PostResponse("http", Created, "row"),
      PostResponse("http", Created, "empty"),
      PostResponse("http", Created, "noid"),
      PostResponse("http", Created, "notjson"),
      PostResponse("http", 200, "row"),
      PostResponse("http", 401, "notjson"),
      PostResponse("http", 409, "row") }

PayloadKeys == {"timestamp", "buy_price_tl", "sell_price_tl", "buy_price_eur",
                "sell_price_eur", "eur_tl_rate", "source", "scraped_from"}

\* the payload dict of save_to_supabase
Payload(data) ==
    [date |-> data.timestamp,
     buy_price_tl |-> data.buy_price_tl, sell_price_tl |-> data.sell_price_tl,
     buy_price_eur |-> data.buy_price_eur, sell_price_eur |-> data.sell_price_eur,
     eur_tl_rate |-> data.eur_tl_rate, source |-> data.source,
     scraped_from |-> data.scraped_from]

SaveResult(ret, posted, rows) == [ret |-> ret, posted |-> posted, rows |-> rows]

\* save_to_supabase without the check of the configuration
SaveToSupabaseNoConfigCheck(data, cfg, resp, rows) ==
    IF HasKey(data, "error") THEN SaveResult(FALSE, FALSE, rows)
    ELSE IF resp.kind = "neterr" THEN SaveResult(FALSE, TRUE, rows)
    ELSE IF resp.status = Created
    THEN SaveResult(resp.body = "row", TRUE, Append(rows, Payload(data)))
    ELSE SaveResult(FALSE, TRUE, rows)

\* save_to_supabase: ret is the return value, posted tells whether
\* requests.post was called, rows is the table afterwards (the store inserts
\* the row when it answers 201)
SaveToSupabase(data, cfg, resp, rows) ==
    IF HasKey(data, "error") THEN SaveResult(FALSE, FALSE, rows)
    ELSE IF ConfigMissing(cfg) THEN SaveResult(FALSE, FALSE, rows)
    ELSE IF ~(PayloadKeys \subseteq DOMAIN data) THEN SaveResult(FALSE, FALSE, rows)
    ELSE IF resp.kind = "neterr" THEN SaveResult(FALSE, TRUE, rows)
    ELSE IF resp.status = Created
    THEN SaveResult(resp.body = "row", TRUE, Append(rows, Payload(data)))
    ELSE SaveResult(FALSE, TRUE, rows)

\* what show_recent_data does with the rows get_recent_prices returns: "none"
\* (no rows, or the request failed), "rows" (printed), "null_created_at" (a row
\* whose created_at is null: None.replace raises AttributeError)
RecentOutcomes == {"none", "rows", "null_created_at"}

\* ------------------------------------------------------------------ state
VARIABLES
    now,            \* the wall clock, in seconds
    dataDir,        \* os.path.exists('data')
    pendingDir,     \* os.path.exists('data/pending')
    pending,        \* the files of data/pending: name -> file
    summary,        \* data/sync_summary.json
    table,          \* the rows of the remote gold_prices table, in insert order
    runs,           \* runs started so far
    pc,             \* where each process is in its main()
    flow,           \* "file", "remote" (main of the remote flow), "caller" (the
                    \* remote flow's functions called without its main)
    env,            \* SUPABASE_URL and SUPABASE_SERVICE_KEY of each process
    gold_data,      \* the dict get_quarter_gold_prices returned
    fetched,        \* the responses received by the get_quarter_gold_prices call
                    \* that has just returned (the rate response only if the
                    \* rate was requested); forgotten at main's next step
    filename,       \* what save_to_json returned: <<name>>, or <<>> for None
    pending_files,  \* the listing update_summary took
    rebuilt,        \* update_summary wrote the whole summary
    saved,          \* what save_to_supabase returned, and whether it posted
    response,       \* the response to the insert
    uncaught,       \* the exception that ended the process, "" if none
    exitCode        \* the exit status: <<>> while running, <<0>> or <<1>>

vars == <<now, dataDir, pendingDir, pending, summary, table, runs, pc, flow, env,
          gold_data, fetched, filename, pending_files, rebuilt, saved, response, uncaught,
          exitCode>>

storeVars == <<dataDir, pendingDir, pending, summary>>
remoteVars == <<env, saved, response, table>>
fileVars == <<filename, pending_files, rebuilt>>

NoFetch == [page |-> PageResponse("none", 0, NoMatch, NoMatch),
            rate |-> RateResponse("none", 0, "none", 0)]
NoEnv == [url |-> "unset", key |-> "unset"]
NotSaved == [called |-> FALSE, ret |-> FALSE, posted |-> FALSE]
NoResponse == PostResponse("none", 0, "none")

\* a pending file an earlier run left behind
OldFile ==
    File(TRUE, WithMetadata(FileOkData(0, Dec(440000, 2), Dec(445000, 2), FallbackRate),
                            0, PendingName(0)))

\* the states data/ can be in when a run starts: missing, without pending/,
\* with an empty pending/, or with files of earlier runs in it
InitialStores ==
    { [data |-> FALSE, pend |-> FALSE, files |-> EmptyDir],
      [data |-> TRUE,  pend |-> FALSE, files |-> EmptyDir],
      [data |-> TRUE,  pend |-> TRUE,  files |-> EmptyDir],
      [data |-> TRUE,  pend |-> TRUE,  files |-> (GitKeep :> File(TRUE, NoData))],
      [data |-> TRUE,  pend |-> TRUE,
       files |-> (GitKeep :> File(TRUE, NoData)) @@ (PendingName(0) :> OldFile)] }

Init ==
    /\ now = 1
    /\ \E st \in InitialStores :
         /\ dataDir = st.data
         /\ pendingDir = st.pend
         /\ pending = st.files
    /\ summary = NoSummary
    /\ table = <<>>
    /\ runs = 0
    /\ pc = [p \in Procs |-> "idle"]
    /\ flow = [p \in Procs |-> "file"]
    /\ env = [p \in Procs |-> NoEnv]
    /\ gold_data = [p \in Procs |-> NoData]
    /\ fetched = [p \in Procs |-> NoFetch]
    /\ filename = [p \in Procs |-> <<>>]
    /\ pending_files = [p \in Procs |-> {}]
    /\ rebuilt = [p \in Procs |-> FALSE]
    /\ saved = [p \in Procs |-> NotSaved]
    /\ response = [p \in Procs |-> NoResponse]
    /\ uncaught = [p \in Procs |-> ""]
    /\ exitCode = [p \in Procs |-> <<>>]

\* a second passes
Tick ==
    /\ now < MaxTime
    /\ now' = now + 1
    /\ UNCHANGED <<storeVars, remoteVars, fileVars, runs, pc, flow, gold_data,
                   fetched, uncaught, exitCode>>

\* a process starts with fresh locals
Fresh(p, f, e) ==
    /\ runs' = runs + 1
    /\ flow' = [flow EXCEPT ![p] = f]
    /\ env' = [env EXCEPT ![p] = e]
    /\ gold_data' = [gold_data EXCEPT ![p] = NoData]
    /\ fetched' = [fetched EXCEPT ![p] = NoFetch]
    /\ filename' = [filename EXCEPT ![p] = <<>>]
    /\ pending_files' = [pending_files EXCEPT ![p] = {}]
    /\ rebuilt' = [rebuilt EXCEPT ![p] = FALSE]
    /\ saved' = [saved EXCEPT ![p] = NotSaved]
    /\ response' = [response EXCEPT ![p] = NoResponse]
    /\ uncaught' = [uncaught EXCEPT ![p] = ""]

\* the process ends with an exit status
Exit(p, code) ==
    /\ pc' = [pc EXCEPT ![p] = "done"]
    /\ exitCode' = [exitCode EXCEPT ![p] = <<code>>]

\* an exception nothing catches ends the process with a traceback and status 1
Crash(p, exc) ==
    /\ uncaught' = [uncaught EXCEPT ![p] = exc]
    /\ Exit(p, 1)

\* an importer's call sequence is over: no exit status
Return(p) ==
    /\ pc' = [pc EXCEPT ![p] = "done"]
    /\ UNCHANGED <<uncaught, exitCode>>

Goto(p, label) ==
    /\ pc' = [pc EXCEPT ![p] = label]
    /\ UNCHANGED <<uncaught, exitCode>>

\* ---------------------------------------------------------- the file flow
\* main() of github_gold_scraper.py starts
FileMainStart(p) ==
    /\ pc[p] = "idle"
    /\ Fresh(p, "file", NoEnv)
    /\ pc' = [pc EXCEPT ![p] = "scrape"]
    /\ exitCode' = [exitCode EXCEPT ![p] = <<>>]
    /\ UNCHANGED <<now, storeVars, table>>

\* main() of github_gold_scraper.py is started again after it exited, as a
\* scheduler does
FileMainAgain(p) ==
    /\ pc[p] = "done" /\ flow[p] = "file"
    /\ runs < MaxRuns
    /\ Fresh(p, "file", NoEnv)
    /\ pc' = [pc EXCEPT ![p] = "scrape"]
    /\ exitCode' = [exitCode EXCEPT ![p] = <<>>]
    /\ UNCHANGED <<now, storeVars, table>>

\* gold_data = get_quarter_gold_prices()
FileScrapeFrom(p, pages, rates) ==
    /\ pc[p] = "scrape" /\ flow[p] = "file"
    /\ \E page \in pages, rate \in rates \cup {NoFetch.rate} :
         LET r == FileGetQuarterGoldPrices(page, rate, now)
         IN  /\ CallsRate(page) \/ rate = NoFetch.rate
             /\ fetched' = [fetched EXCEPT ![p] = [page |-> page, rate |-> rate]]
             /\ IF r.raised
                THEN Crash(p, r.exc) /\ UNCHANGED gold_data
                ELSE /\ gold_data' = [gold_data EXCEPT ![p] = r.val]
                     /\ Goto(p, "exists_data")
    /\ UNCHANGED <<now, storeVars, remoteVars, fileVars, runs, flow>>

FileScrape(p) == FileScrapeFrom(p, PageResponses, RateResponses)

\* ensure_data_directory: if not os.path.exists('data')
ExistsData(p) ==
    /\ pc[p] = "exists_data"
    /\ Goto(p, IF dataDir THEN "exists_pending" ELSE "makedirs_data")
    /\ fetched' = [fetched EXCEPT ![p] = NoFetch]
    /\ UNCHANGED <<now, storeVars, remoteVars, fileVars, runs, flow, gold_data>>

\* ensure_data_directory: os.makedirs('data'), outside any try. It raises
\* FileExistsError when the directory exists by now, and OSError when the
\* directory cannot be created
MakedirsData(p) ==
    /\ pc[p] = "makedirs_data"
    /\ \E oserror \in BOOLEAN :
         IF dataDir THEN Crash(p, "FileExistsError") /\ UNCHANGED dataDir
         ELSE IF oserror THEN Crash(p, "OSError") /\ UNCHANGED dataDir
         ELSE dataDir' = TRUE /\ Goto(p, "exists_pending")
    /\ UNCHANGED <<now, pendingDir, pending, summary, remoteVars, fileVars, runs, flow,
                   gold_data, fetched>>

\* ensure_data_directory: if not os.path.exists('data/pending')
ExistsPending(p) ==
    /\ pc[p] = "exists_pending"
    /\ Goto(p, IF pendingDir THEN "save" ELSE "makedirs_pending")
    /\ UNCHANGED <<now, storeVars, remoteVars, fileVars, runs, flow, gold_data, fetched>>

\* ensure_data_directory: os.makedirs('data/pending')
MakedirsPending(p) ==
    /\ pc[p] = "makedirs_pending"
    /\ \E oserror \in BOOLEAN :
         IF pendingDir THEN Crash(p, "FileExistsError") /\ UNCHANGED pendingDir
         ELSE IF oserror THEN Crash(p, "OSError") /\ UNCHANGED pendingDir
         ELSE pendingDir' = TRUE /\ Goto(p, "save")
    /\ UNCHANGED <<now, dataDir, pending, summary, remoteVars, fileVars, runs, flow,
                   gold_data, fetched>>

\* main testing "if not filename"
FilenameTruthyInverted(ret) == ret = <<>>

\* main: if filename
FilenameTruthy(ret) == ret # <<>>

\* the rest of save_to_json, and main's branch on its result: update the
\* summary, or sys.exit(1)
SaveFile(p) ==
    /\ pc[p] = "save"
    /\ \E io \in IoOutcomes :
         LET r == SaveToJson(gold_data[p], now, pending, io)
         IN  /\ gold_data' = [gold_data EXCEPT ![p] = r.data]
             /\ filename' = [filename EXCEPT ![p] = r.ret]
             /\ pending' = r.dir
             /\ IF FilenameTruthy(r.ret)
                THEN Goto(p, "list")
                ELSE Exit(p, 1) /\ UNCHANGED uncaught
    /\ UNCHANGED <<now, dataDir, pendingDir, summary, remoteVars, pending_files,
                   rebuilt, runs, flow, fetched>>

\* update_summary: the listing of data/pending. When os.listdir raises, the
\* except clause prints, and main ends with status 0
SummaryList(p) ==
    /\ pc[p] = "list"
    /\ \E oserror \in BOOLEAN :
         IF oserror
         THEN Exit(p, 0) /\ UNCHANGED <<uncaught, pending_files>>
         ELSE /\ pending_files' = [pending_files EXCEPT ![p] = ListPending(pending)]
              /\ Goto(p, "write_summary")
    /\ UNCHANGED <<now, storeVars, remoteVars, filename, rebuilt, runs, flow, gold_data,
                   fetched>>

\* update_summary: the write of data/sync_summary.json; then main ends
SummaryWrite(p) ==
    /\ pc[p] = "write_summary"
    /\ \E io \in IoOutcomes :
         /\ summary' = WriteSummary(summary, now, pending_files[p], io)
         /\ rebuilt' = [rebuilt EXCEPT ![p] = (io = "ok")]
    /\ Exit(p, 0)
    /\ UNCHANGED <<now, dataDir, pendingDir, pending, remoteVars, filename, pending_files,
                   runs, flow, gold_data, fetched, uncaught>>

\* -------------------------------------------------------- the remote flow
\* main() of supabase_gold_scraper.py starts: sys.exit(1) when the
\* configuration is missing
RemoteMainStart(p) ==
    /\ pc[p] = "idle"
    /\ \E url \in EnvValues, key \in EnvValues :
         /\ Fresh(p, "remote", [url |-> url, key |-> key])
         /\ IF ConfigMissing([url |-> url, key |-> key])
            THEN Exit(p, 1)
            ELSE /\ pc' = [pc EXCEPT ![p] = "scrape"]
                 /\ exitCode' = [exitCode EXCEPT ![p] = <<>>]
    /\ UNCHANGED <<now, storeVars, table>>

\* the functions of supabase_gold_scraper.py called by an importer, without
\* main's check of the configuration
RemoteCallerStart(p) ==
    /\ pc[p] = "idle"
    /\ \E url \in EnvValues, key \in EnvValues :
         Fresh(p, "caller", [url |-> url, key |-> key])
    /\ pc' = [pc EXCEPT ![p] = "scrape"]
    /\ exitCode' = [exitCode EXCEPT ![p] = <<>>]
    /\ UNCHANGED <<now, storeVars, table>>

\* data = get_quarter_gold_prices()
RemoteScrape(p) ==
    /\ pc[p] = "scrape" /\ flow[p] \in {"remote", "caller"}
    /\ \E page \in PageResponses, rate \in RateResponses \cup {NoFetch.rate} :
         LET r == RemoteGetQuarterGoldPrices(page, rate, now)
         IN  /\ CallsRate(page) \/ rate = NoFetch.rate
             /\ fetched' = [fetched EXCEPT ![p] = [page |-> page, rate |-> rate]]
             /\ IF r.raised
                THEN Crash(p, r.exc) /\ UNCHANGED gold_data
                ELSE /\ gold_data' = [gold_data EXCEPT ![p] = r.val]
                     /\ Goto(p, "supabase")
    /\ UNCHANGED <<now, storeVars, remoteVars, fileVars, runs, flow>>

\* save_to_supabase(data), and main's branch on its result: show the recent
\* rows, or sys.exit(1). An importer just gets the result
RemoteSave(p) ==
    /\ pc[p] = "supabase"
    /\ \E resp \in PostResponses :
         LET r == SaveToSupabase(gold_data[p], env[p], resp, table)
         IN  /\ saved' = [saved EXCEPT ![p] =
                           [called |-> TRUE, ret |-> r.ret, posted |-> r.posted]]
             /\ response' = [response EXCEPT ![p] =
                              IF r.posted THEN resp ELSE NoResponse]
             /\ table' = r.rows
             /\ IF flow[p] = "caller" THEN Return(p)
                ELSE IF r.ret THEN Goto(p, "show")
                ELSE Exit(p, 1) /\ UNCHANGED uncaught
    /\ fetched' = [fetched EXCEPT ![p] = NoFetch]
    /\ UNCHANGED <<now, storeVars, env, fileVars, runs, flow, gold_data>>

\* show_recent_data(); then main ends
ShowRecentData(p) ==
    /\ pc[p] = "show"
    /\ \E recs \in RecentOutcomes :
         IF recs = "null_created_at"
         THEN Crash(p, "AttributeError")
         ELSE Exit(p, 0) /\ UNCHANGED uncaught
    /\ UNCHANGED <<now, storeVars, remoteVars, fileVars, runs, flow, gold_data, fetched>>

\* ---------------------------------------------------------- specifications
FileStep(p) ==
    \/ ExistsData(p)
    \/ MakedirsData(p)
    \/ ExistsPending(p)
    \/ MakedirsPending(p)
    \/ SaveFile(p)
    \/ SummaryList(p)
    \/ SummaryWrite(p)

\* one run of either flow
Next ==
    \/ Tick
    \/ FileMainStart(1)
    \/ FileScrape(1)
    \/ FileStep(1)
    \/ RemoteMainStart(1)
    \/ RemoteCallerStart(1)
    \/ RemoteScrape(1)
    \/ RemoteSave(1)
    \/ ShowRecentData(1)

Spec == Init /\ [][Next]_vars

\* the responses that runs sharing a data directory receive: a page with both
\* prices or without them, a rate or a failed rate request
SharedPages ==
    { PageResponse("http", 200, Buy4500, Sell4550),
      PageResponse("http", 200, NoMatch, NoMatch) }

SharedRates ==
    { RateResponse("http", 200, "number", 4012),
      RateResponse("neterr", 0, "none", 0) }

\* runs of the file flow, one after another on the same data directory
NextRuns ==
    \/ Tick
    \/ FileMainStart(1)
    \/ FileMainAgain(1)
    \/ FileScrapeFrom(1, SharedPages, SharedRates)
    \/ FileStep(1)

SpecRuns == Init /\ [][NextRuns]_vars

\* two runs of the file flow that overlap on the same data directory
NextOverlap ==
    \/ Tick
    \/ \E p \in Procs :
         \/ FileMainStart(p)
         \/ FileScrapeFrom(p, SharedPages, SharedRates)
         \/ FileStep(p)

SpecOverlap == Init /\ [][NextOverlap]_vars

\* ------------------------------------------------------------ properties
\* the dict is an ok Observation: it has no 'error' key
IsOk(d) == ~HasKey(d, "error")

HasConverted(d) == HasKey(d, "buy_price_eur") /\ HasKey(d, "sell_price_eur")

\* get_quarter_gold_prices has just returned to process p
JustScraped(p) == pc[p] \in {"exists_data", "supabase"}

\* the rate request failed: no connection, an error status, or a body without
\* the rate (or that is no JSON)
RateRequestFails(resp) ==
    \/ resp.kind = "neterr"
    \/ resp.kind = "http" /\ RaisesForStatus(resp.status)
    \/ resp.kind = "http" /\ resp.body \in {"missing", "notjson"}

\* every Observation there is: the dicts the processes hold, the documents of
\* the complete pending files, the rows of the remote table
Observations ==
    {gold_data[p] : p \in {q \in Procs : HasKey(gold_data[q], "source")}}
    \cup {pending[n].doc : n \in {m \in DOMAIN pending : HasKey(pending[m].doc, "source")}}
    \cup {table[i] : i \in 1..Len(table)}

JsonFiles == {n \in DOMAIN pending : n.ext = ".json"}

\* C1 as claimed: in both flows, when the rate request fails after both
\* patterns matched, get_quarter_gold_prices returns an ok Observation that
\* carries the fallback rate 36.50 and the converted prices
C1_FallbackInEveryFlow ==
    \A p \in Procs :
        JustScraped(p) /\ RateRequestFails(fetched[p].rate)
        => /\ IsOk(gold_data[p])
           /\ HasConverted(gold_data[p])
           /\ gold_data[p].eur_tl_rate = FallbackRate

\* C1 amended: when the rate request fails after both patterns matched, the
\* file flow returns an ok Observation with the fallback rate 36.50 and the
\* converted prices, and the remote flow, whose get_eur_tl_rate re-raises,
\* returns an error Observation without converted prices
C1_FallbackInFileFlowOnly ==
    \A p \in Procs :
        JustScraped(p) /\ RateRequestFails(fetched[p].rate)
        => IF flow[p] = "file"
           THEN /\ IsOk(gold_data[p])
                /\ HasConverted(gold_data[p])
                /\ gold_data[p].eur_tl_rate = FallbackRate
           ELSE /\ ~IsOk(gold_data[p])
                /\ ~HasConverted(gold_data[p])

\* a file-flow scrape whose rate request failed has returned an ok Observation
C1_Witness ==
    \E p \in Procs :
        /\ flow[p] = "file" /\ JustScraped(p)
        /\ RateRequestFails(fetched[p].rate)
        /\ IsOk(gold_data[p])

\* C2 as claimed: a file-flow run whose Observation is an error and that
\* reached the save ends with status 1, and a run ends with status 0 only
\* when an ok Observation was persisted
C2_ErrorObservationExitsOne ==
    \A p \in Procs :
        flow[p] = "file" /\ pc[p] = "done"
        => /\ (~IsOk(gold_data[p]) /\ HasKey(gold_data[p], "saved_at")
               => exitCode[p] = <<1>>)
           /\ (exitCode[p] = <<0>> => IsOk(gold_data[p]) /\ filename[p] # <<>>)

\* C2 amended: a file-flow run ends with status 1 exactly when the save failed
\* (save_to_json returned None, or raised), and with status 0 exactly when
\* save_to_json wrote the Observation, ok or error, to data/pending; an error
\* Observation that is saved ends the run with status 0
C2_ExitOneIffSaveFailed ==
    \A p \in Procs :
        flow[p] = "file" /\ pc[p] = "done"
        => /\ exitCode[p] = <<1>> <=> filename[p] = <<>>
           /\ exitCode[p] = <<0>> <=> filename[p] # <<>>
           /\ filename[p] # <<>>
              => /\ filename[p][1] \in DOMAIN pending
                 /\ pending[filename[p][1]] = File(TRUE, gold_data[p])

\* a file-flow run has saved an error Observation and ended with status 0
C2_Witness ==
    \E p \in Procs :
        /\ flow[p] = "file" /\ pc[p] = "done"
        /\ ~IsOk(gold_data[p])
        /\ filename[p] # <<>>
        /\ exitCode[p] = <<0>>

\* C3: save_to_supabase posts only an ok Observation with both configuration
\* values set; for an error Observation or a missing value it returns False
\* without a request, and the table only ever holds rows of posted ok
\* Observations
C3_InsertOnlyOkAndConfigured ==
    /\ \A p \in Procs :
         saved[p].called
         => /\ saved[p].posted => IsOk(gold_data[p]) /\ ~ConfigMissing(env[p])
            /\ ~IsOk(gold_data[p]) \/ ConfigMissing(env[p])
               => ~saved[p].ret /\ ~saved[p].posted
    /\ \A i \in 1..Len(table) :
         \E p \in Procs :
            /\ saved[p].posted /\ IsOk(gold_data[p])
            /\ table[i] = Payload(gold_data[p])

\* save_to_supabase was called with an ok Observation and a missing
\* configuration value
C3_Witness ==
    \E p \in Procs :
        /\ saved[p].called
        /\ IsOk(gold_data[p])
        /\ ConfigMissing(env[p])
        /\ ~saved[p].ret

\* C4 as claimed: for an ok Observation with the configuration present,
\* save_to_supabase returns True exactly when the response status is 201,
\* whatever the body
C4_SavedIffCreated ==
    \A p \in Procs :
        saved[p].called /\ saved[p].posted /\ response[p].kind = "http"
        => (saved[p].ret <=> response[p].status = Created)

\* C5 as claimed: save_to_json never raises: no file-flow process is ended by
\* an exception of the directory creation
C5_SaveToJsonNeverRaises ==
    \A p \in Procs :
        flow[p] = "file" => uncaught[p] \notin {"FileExistsError", "OSError"}

\* C6: after a run of a sequence of file-flow runs has saved and rebuilt the
\* summary, pending_records equals the number of .json files in data/pending
C6_SummaryCountsPendingFiles ==
    \A p \in Procs :
        flow[p] = "file" /\ pc[p] = "done" /\ filename[p] # <<>> /\ rebuilt[p]
        => /\ summary.state = "ok"
           /\ summary.pending_records = Cardinality(JsonFiles)

\* the second run of a sequence has rebuilt the summary of a directory that
\* holds a file that is no .json file and at least two that are
C6_Witness ==
    \E p \in Procs :
        /\ flow[p] = "file" /\ pc[p] = "done" /\ rebuilt[p]
        /\ runs = 2
        /\ GitKeep \in DOMAIN pending
        /\ Cardinality(JsonFiles) >= 2

\* the scrape of process p was given responses on which the extraction fails:
\* the page fetch fails, a pattern does not match, or a later step raises
\* (float(), the rate request in the remote flow, the division)
ExtractionFails(p) ==
    LET page == fetched[p].page
        rate == fetched[p].rate
    IN  \/ page.kind = "neterr"
        \/ page.kind = "http" /\ RaisesForStatus(page.status)
        \/ page.kind = "http" /\ (page.buy = NoMatch \/ page.sell = NoMatch)
        \/ page.kind = "http" /\ page.buy # NoMatch /\ page.sell # NoMatch
           /\ (ParsePrice(page.buy).raised \/ ParsePrice(page.sell).raised)
        \/ flow[p] # "file" /\ RateRequestFails(rate)
        \/ rate.kind = "http" /\ rate.body = "null"
        \/ rate.kind = "http" /\ rate.body = "number" /\ rate.val.m = 0

\* C7: no exception escapes get_quarter_gold_prices in either flow, and when
\* the extraction fails it returns an error Observation with a message and
\* the source URL
C7_ExtractorNeverRaises ==
    \A p \in Procs :
        /\ ~(pc[p] = "done" /\ fetched[p] # NoFetch)
        /\ JustScraped(p) /\ ExtractionFails(p)
           => /\ HasKey(gold_data[p], "error")
              /\ gold_data[p].error # ""
              /\ HasKey(gold_data[p], "source")
              /\ gold_data[p].source = Url

\* a scrape in which a step after the matching failed (the division by a zero
\* rate) has returned an error Observation
C7_Witness ==
    \E p \in Procs :
        /\ JustScraped(p)
        /\ fetched[p].rate.body = "number" /\ fetched[p].rate.val.m = 0
        /\ HasKey(gold_data[p], "error")

\* C8: every Observation, returned or persisted, has the converted prices if
\* and only if it has no 'error' key
C8_ConvertedIffOk ==
    \A d \in Observations :
        /\ HasConverted(d) <=> IsOk(d)
        /\ HasKey(d, "buy_price_eur") <=> HasKey(d, "sell_price_eur")

\* an error Observation has been persisted as a pending file
C8_Witness ==
    \E n \in DOMAIN pending :
        /\ pending[n].complete
        /\ HasKey(pending[n].doc, "error")
        /\ ~HasConverted(pending[n].doc)

\* C9 as claimed: the eur_tl_rate of every ok Observation, returned or
\* persisted, is a positive number
C9_RateAlwaysPositive ==
    \A d \in Observations :
        IsOk(d) => HasKey(d, "eur_tl_rate") /\ d.eur_tl_rate.m > 0

\* C10 as claimed: once two overlapping file-flow runs whose file names differ
\* have both saved and rebuilt the summary, both files are in data/pending,
\* each with its run's content, and pending_records equals the number of
\* .json files
C10_OverlappingRunsConsistent ==
    (/\ \A p \in Procs : pc[p] = "done" /\ filename[p] # <<>> /\ rebuilt[p]
     /\ filename[1] # filename[2])
    => /\ \A p \in Procs :
            /\ filename[p][1] \in DOMAIN pending
            /\ pending[filename[p][1]] = File(TRUE, gold_data[p])
       /\ summary.state = "ok"
       /\ summary.pending_records = Cardinality(JsonFiles)

====
